---- MODULE Spec2Model ----
(***************************************************************************)
(* Habit tracker (src/script.js): the in-memory habit list, the derived    *)
(* totals, the localStorage slot 'habitsData', the page's startup sequence *)
(* and the add / toggle / delete handlers.                                 *)
(*                                                                         *)
(* A string the code trims or lower-cases (a habit name) is a sequence of  *)
(* one-character strings; a string the code only compares or copies (a     *)
(* time) is a TLA+ string.  Date.now() is the clock's ms reading and       *)
(* toDateString() its calendar day.                                        *)
(***************************************************************************)
EXTENDS Integers, Sequences, FiniteSets, TLC

(* ---------------------------------------------------------------- bounds *)
\* Largest clock reading (Date.now()) and largest calendar day of a run.
MaxNow == 2
MaxDay == 1
\* Length of the list an earlier session may have left in the slot: more
\* than 50 habits, so that its completions are worth more than 500 points.
LongLen == 51

(* ---------------------------------------------------------------- inputs *)
\* Values of habitNameInput.value tried by addHabit: empty, blank, padded,
\* and names that differ only by case.
NameInputs ==
    { <<>>, <<" ", " ">>, <<"a">>, <<"A">>, <<" ", "a", " ">>, <<"b", " ">> }

\* Values of habitTimeInput.value: no time chosen, or an HH:MM string.
TimeInputs == { "", "07:00" }

\* Ids handed to toggleHabit / deleteHabit: every clock reading of the run,
\* so both ids in the store and ids that match no habit.
IdInputs == 0..MaxNow

\* setOn of a habit that is not completed.
NoDay == 0 - 1

VARIABLES
    habits,        \* script.js:14  let habits = []
    totalPoints,   \* script.js:15  let totalPoints = 0
    storage,       \* localStorage slot 'habitsData'
    now,           \* the clock: Date.now()
    day,           \* the clock: calendar day of new Date().toDateString()
    pc,            \* what the page does next: load, check, render (the steps
                   \* of startup), idle (wait for an event), crashed (wait,
                   \* after the startup handler threw)
    display,       \* the cards in habitsList, top to bottom
    progressText,  \* the percentage shown in progressText / progressBar
    lastOp,        \* history: what the last handler did
    resets         \* history: number of daily resets performed on each day

vars ==
    << habits, totalPoints, storage, now, day, pc, display, progressText,
       lastOp, resets >>

(* ------------------------------------------------------- string helpers *)
\* String.prototype.toLowerCase on one character.
LowerChar(c) ==
    CASE c = "A" -> "a"
      [] c = "B" -> "b"
      [] OTHER -> c

\* toLowerCase leaving the string as it is.
toLowerCaseNoop(s) == s

toLowerCase(s) == [i \in 1..Len(s) |-> LowerChar(s[i])]

RECURSIVE trimStart(_)
trimStart(s) ==
    IF s # <<>> /\ Head(s) = " " THEN trimStart(Tail(s)) ELSE s

RECURSIVE trimEnd(_)
trimEnd(s) ==
    IF s # <<>> /\ s[Len(s)] = " "
    THEN trimEnd(SubSeq(s, 1, Len(s) - 1))
    ELSE s

\* String.prototype.trim
trim(s) == trimEnd(trimStart(s))

\* Position of a time string in the collation order localeCompare uses:
\* the empty string first, and digits before letters, so every HH:MM
\* precedes "Anytime".
CollationKey(t) ==
    CASE t = "" -> 0
      [] t = "07:00" -> 1
      [] t = "Anytime" -> 2

\* a.localeCompare(b)
localeCompare(a, b) ==
    IF CollationKey(a) < CollationKey(b) THEN -1
    ELSE IF CollationKey(a) > CollationKey(b) THEN 1
    ELSE 0

(* ---------------------------------------------------------- persistence *)
\* The record saveData builds (lines 60-63).
Snapshot(d, hs) == [lastVisitDate |-> d, habits |-> hs]

\* JSON.stringify(data): the text holds lastVisitDate and, per habit and in
\* order, the values of id, name, time and completed (setOn, the history
\* field, travels with its habit).
JSONstringify(data) ==
    [ kind |-> "json",
      text |-> << data.lastVisitDate,
                  [i \in 1..Len(data.habits) |->
                      << data.habits[i].id, data.habits[i].name,
                         data.habits[i].time, data.habits[i].completed,
                         data.habits[i].setOn >>] >> ]

\* JSON.parse(storedData) of a text JSONstringify wrote.
JSONparse(s) ==
    [ lastVisitDate |-> s.text[1],
      habits |-> [i \in 1..Len(s.text[2]) |->
                     [ id |-> s.text[2][i][1], name |-> s.text[2][i][2],
                       time |-> s.text[2][i][3],
                       completed |-> s.text[2][i][4],
                       setOn |-> s.text[2][i][5] ]] ]

\* localStorage.getItem returns null: nothing was ever saved.
Absent == [kind |-> "absent"]
\* The slot holds a non-empty string that JSON.parse rejects.
Corrupt == [kind |-> "corrupt"]

\* new Date().toDateString()
toDateString == day

(* -------------------------------------------------------- derived totals *)
POINTS_PER_HABIT == 10

\* habits.filter(h => h.completed).length
completedCount(hs) == Cardinality({i \in 1..Len(hs) : hs[i].completed})

\* calculatePoints with the total held at the 500 the page shows it against.
calculatePointsCapped(hs) ==
    IF completedCount(hs) * POINTS_PER_HABIT > 500 THEN 500
    ELSE completedCount(hs) * POINTS_PER_HABIT

\* calculatePoints (lines 87-95): the value assigned to totalPoints.
calculatePoints(hs) == completedCount(hs) * POINTS_PER_HABIT

\* Math.round(x) for x = p / q >= 0: the nearest integer, halves up.
MathRound(p, q) == (2 * p + q) \div (2 * q)

\* The odd j for which the double (j / 200) * 100 is smaller than j / 2: the
\* quotient j / 200 is rounded down to 53 bits, and the product with 100 is
\* rounded to the double just below j / 2 instead of j / 2 itself.  (For the
\* other odd j below 200 the product is j / 2 exactly.)
FallsShort == {29, 57, 113, 115}

\* Math.round((c / n) * 100) of line 105, with / and * on doubles, for
\* 0 <= c <= n and n > 0.  The two roundings move the product by less than
\* 2^-44, so Math.round sees the side of the half that 100c / n is on unless
\* 100c / n is a half itself, j / 2 with j = 200c / n odd; there the product
\* is j / 2, rounded up, or for j in FallsShort just below it, rounded down.
percentage(c, n) ==
    IF (200 * c) % n = 0 /\ ((200 * c) \div n) \in FallsShort
    THEN MathRound(c * 100, n) - 1
    ELSE MathRound(c * 100, n)

\* updateProgress (lines 97-109): the percentage written to the page.
updateProgress(hs) ==
    IF Len(hs) = 0 THEN 0
    ELSE percentage(completedCount(hs), Len(hs))

(* --------------------------------------------------------------- display *)
\* The comparator without its completed branch.
compareByTimeOnly(a, b) == localeCompare(a.time, b.time)

\* The comparator of renderHabits (lines 170-175).
compare(a, b) ==
    IF a.completed = b.completed
    THEN localeCompare(a.time, b.time)
    ELSE IF a.completed THEN 1 ELSE -1

\* [...habits].sort(compare): Array.prototype.sort is stable, so the element
\* at index i of the copy ends up after the elements that compare smaller
\* and after the equal ones that stood before it.
sortHabits(hs) ==
    LET n == Len(hs)
        before(i) ==
            {j \in 1..n : \/ compare(hs[j], hs[i]) < 0
                          \/ (compare(hs[j], hs[i]) = 0 /\ j < i)}
        place == SubSeq([i \in 1..n |-> Cardinality(before(i)) + 1], 1, n)
    IN  [p \in 1..n |-> hs[CHOOSE i \in 1..n : place[i] = p]]

\* renderHabits (lines 159-220): the cards shown, in order.
renderHabits(hs) == sortHabits(hs)

\* The history record of a step: the handler or event, and whether it went
\* through (parsed, reset, added, matched, confirmed).
Did(o, d) == [op |-> o, done |-> d]

(* ------------------------------------------------------------------ Init *)
\* Names of the habits of the long list: "a", "B", then the two-letter
\* names "hh", "hi", ..., all different ignoring case.
Letters == << "h", "i", "j", "k", "l", "m", "n", "o" >>

LongName(k) ==
    CASE k = 1 -> <<"a">>
      [] k = 2 -> <<"B">>
      [] OTHER -> << Letters[((k - 3) \div Len(Letters)) + 1],
                     Letters[((k - 3) % Len(Letters)) + 1] >>

\* What an earlier session of day 0 may have saved: LongLen habits, added
\* at clock readings before this run's first and all completed that day.
LongList ==
    [k \in 1..LongLen |->
        [ id |-> k - 1 - LongLen,
          name |-> LongName(k),
          time |-> "Anytime",
          completed |-> TRUE,
          setOn |-> 0 ]]

\* The page has just been opened and DOMContentLoaded is next; slot is what
\* the slot holds.
Opened(slot) ==
    /\ habits = <<>>
    /\ totalPoints = 0
    /\ storage = slot
    /\ now = 0
    /\ day = 0
    /\ pc = "load"
    /\ display = <<>>
    /\ progressText = 0
    /\ lastOp = Did("open", TRUE)
    /\ resets = [d \in 0..MaxDay |-> 0]

\* A fresh install: nothing was ever saved.
Init == Opened(Absent)

\* The page opened on the long list of an earlier session.
InitLongList == Opened(JSONstringify(Snapshot(0, LongList)))

\* What an earlier session of day 0 may also have saved: forty habits, the
\* first twenty-three of them completed that day.
FortyList ==
    [k \in 1..40 |->
        [ id |-> k - 41,
          name |-> LongName(k),
          time |-> "Anytime",
          completed |-> k <= 23,
          setOn |-> IF k <= 23 THEN 0 ELSE NoDay ]]

\* The page opened on the forty habits.
InitFortyList == Opened(JSONstringify(Snapshot(0, FortyList)))

(* ----------------------------------------------------------- the clock *)
\* Time passes within a calendar day: new Date() / Date.now() read later.
Tick ==
    /\ now < MaxNow
    /\ now' = now + 1
    /\ lastOp' = Did("tick", TRUE)
    /\ UNCHANGED << habits, totalPoints, storage, day, pc, display,
                    progressText, resets >>

\* Time passes and the calendar date changes.
NextDay ==
    /\ now < MaxNow
    /\ day < MaxDay
    /\ now' = now + 1
    /\ day' = day + 1
    /\ lastOp' = Did("midnight", TRUE)
    /\ UNCHANGED << habits, totalPoints, storage, pc, display, progressText,
                    resets >>

\* Something other than this page leaves text in the slot that is not JSON.
CorruptStorage ==
    /\ storage # Corrupt
    /\ storage' = Corrupt
    /\ lastOp' = Did("corrupt", TRUE)
    /\ UNCHANGED << habits, totalPoints, now, day, pc, display, progressText,
                    resets >>

(* -------------------------------------------------------------- saveData *)
\* saveData writing the list as it was before the handler changed it.
saveDataStale(hs) ==
    /\ storage' = JSONstringify(Snapshot(toDateString, habits))
    /\ totalPoints' = calculatePoints(hs)
    /\ progressText' = updateProgress(hs)

\* saveData writing the list but keeping the date already in the slot.
saveDataKeepDate(hs) ==
    /\ storage' = JSONstringify(Snapshot(
                      IF storage.kind = "json"
                      THEN JSONparse(storage).lastVisitDate
                      ELSE toDateString, hs))
    /\ totalPoints' = calculatePoints(hs)
    /\ progressText' = updateProgress(hs)

\* saveData (lines 59-67): stamp today's date, write the whole list, then
\* calculatePoints() and updateProgress().
saveData(hs) ==
    /\ storage' = JSONstringify(Snapshot(toDateString, hs))
    /\ totalPoints' = calculatePoints(hs)
    /\ progressText' = updateProgress(hs)

(* --------------------------------------------------------------- startup *)
\* loadData (lines 49-57), first call of the DOMContentLoaded handler.  An
\* exception of JSON.parse leaves the handler: nothing after it runs.
LoadData ==
    /\ pc = "load"
    /\ CASE storage.kind = "absent" ->
              /\ pc' = "check"
              /\ lastOp' = Did("load", FALSE)
              /\ UNCHANGED << habits, totalPoints >>
         [] storage.kind = "corrupt" ->
              /\ pc' = "crashed"
              /\ lastOp' = Did("load", FALSE)
              /\ UNCHANGED << habits, totalPoints >>
         [] storage.kind = "json" ->
              /\ habits' = JSONparse(storage).habits
              /\ totalPoints' = calculatePoints(habits')
              /\ pc' = "check"
              /\ lastOp' = Did("load", TRUE)
    /\ UNCHANGED << storage, now, day, display, progressText, resets >>

\* The forEach stopping one habit short.
resetHabitsButLast(hs) ==
    [i \in 1..Len(hs) |->
        IF i < Len(hs)
        THEN [hs[i] EXCEPT !.completed = FALSE, !.setOn = NoDay]
        ELSE hs[i]]

\* The habits after the forEach of lines 78-80.
resetHabits(hs) ==
    [i \in 1..Len(hs) |-> [hs[i] EXCEPT !.completed = FALSE, !.setOn = NoDay]]

\* checkDailyReset (lines 69-85), second call of the handler.
CheckDailyReset ==
    /\ pc = "check"
    /\ CASE storage.kind = "absent" ->
              /\ pc' = "render"
              /\ lastOp' = Did("check", FALSE)
              /\ UNCHANGED << habits, totalPoints, storage, progressText,
                              resets >>
         [] storage.kind = "corrupt" ->
              /\ pc' = "crashed"
              /\ lastOp' = Did("check", FALSE)
              /\ UNCHANGED << habits, totalPoints, storage, progressText,
                              resets >>
         [] storage.kind = "json" ->
              LET lastDate == JSONparse(storage).lastVisitDate
                  today == toDateString
              IN  IF lastDate # today
                  THEN /\ habits' = resetHabits(habits)
                       /\ saveData(habits')
                       /\ resets' = [resets EXCEPT ![today] = @ + 1]
                       /\ pc' = "render"
                       /\ lastOp' = Did("check", TRUE)
                  ELSE /\ pc' = "render"
                       /\ lastOp' = Did("check", FALSE)
                       /\ UNCHANGED << habits, totalPoints, storage,
                                       progressText, resets >>
    /\ UNCHANGED << now, day, display >>

\* The rest of the handler (lines 22-24): updateDateDisplay, renderHabits,
\* updateProgress.
Render ==
    /\ pc = "render"
    /\ display' = renderHabits(habits)
    /\ progressText' = updateProgress(habits)
    /\ pc' = "idle"
    /\ lastOp' = Did("render", TRUE)
    /\ UNCHANGED << habits, totalPoints, storage, now, day, resets >>

\* The page is reloaded (or closed and opened again): the script starts over
\* with the state of lines 14-15 and an empty list element.
Reload ==
    /\ pc \in {"idle", "crashed"}
    /\ habits' = <<>>
    /\ totalPoints' = 0
    /\ display' = <<>>
    /\ progressText' = 0
    /\ pc' = "load"
    /\ lastOp' = Did("open", TRUE)
    /\ UNCHANGED << storage, now, day, resets >>

(* -------------------------------------------------------------- handlers *)
\* The listeners of lines 28-31 and the onclick handlers are in place once
\* the script has run, also when the DOMContentLoaded handler threw; a
\* handler that has run leaves the page waiting for the next event.
Interactive == pc \in {"idle", "crashed"}

\* The duplicate check comparing the names as they are.
isDuplicateExact(hs, name) == \E i \in 1..Len(hs) : hs[i].name = name

\* habits.some(h => h.name.toLowerCase() === name.toLowerCase())
isDuplicate(hs, name) ==
    \E i \in 1..Len(hs) : toLowerCase(hs[i].name) = toLowerCase(name)

\* The object built without the 'Anytime' default.
newHabitRawTime(name, time) ==
    [ id |-> now, name |-> name, time |-> time, completed |-> FALSE,
      setOn |-> NoDay ]

\* The object built at lines 126-131.
newHabit(name, time) ==
    [ id |-> now,
      name |-> name,
      time |-> IF time = "" THEN "Anytime" ELSE time,
      completed |-> FALSE,
      setOn |-> NoDay ]

\* addHabit (lines 111-140).
AddHabit(nameInput, timeInput) ==
    /\ Interactive
    /\ pc' = "idle"
    /\ LET name == trim(nameInput)
       IN  IF name = <<>>
           THEN /\ lastOp' = Did("add_blank", FALSE)
                /\ UNCHANGED << habits, totalPoints, storage, display,
                                progressText >>
           ELSE IF isDuplicate(habits, name)
           THEN /\ lastOp' = Did("add_duplicate", FALSE)
                /\ UNCHANGED << habits, totalPoints, storage, display,
                                progressText >>
           ELSE /\ lastOp' = Did("add", TRUE)
                /\ habits' = Append(habits, newHabit(name, timeInput))
                /\ saveData(habits')
                /\ display' = renderHabits(habits')
    /\ UNCHANGED << now, day, resets >>

\* habits.find(h => h.id === id): the index of the first match, 0 if none.
find(hs, id) ==
    IF \E i \in 1..Len(hs) : hs[i].id = id
    THEN CHOOSE i \in 1..Len(hs) :
            /\ hs[i].id = id
            /\ \A j \in 1..(i - 1) : hs[j].id # id
    ELSE 0

\* Line 145 applied to every habit that has the id of the one found.
flippedAllAlike(hs, i) ==
    [k \in 1..Len(hs) |->
        IF hs[k].id = hs[i].id
        THEN [hs[k] EXCEPT !.completed = ~@,
                           !.setOn = IF hs[k].completed THEN NoDay ELSE day]
        ELSE hs[k]]

\* Line 145 setting the flag instead of negating it.
flippedSetTrue(hs, i) ==
    [hs EXCEPT ![i] = [@ EXCEPT !.completed = TRUE, !.setOn = day]]

\* The list after line 145 has flipped the habit at index i.
flipped(hs, i) ==
    [hs EXCEPT ![i] = [@ EXCEPT !.completed = ~@,
                                !.setOn = IF hs[i].completed THEN NoDay
                                          ELSE day]]

\* toggleHabit (lines 142-149).
ToggleHabit(id) ==
    /\ Interactive
    /\ pc' = "idle"
    /\ LET i == find(habits, id)
       IN  IF i # 0
           THEN /\ lastOp' = Did("toggle", TRUE)
                /\ habits' = flipped(habits, i)
                /\ saveData(habits')
                /\ display' = renderHabits(habits')
           ELSE /\ lastOp' = Did("toggle", FALSE)
                /\ UNCHANGED << habits, totalPoints, storage, display,
                                progressText >>
    /\ UNCHANGED << now, day, resets >>

\* The filter keeping the habits it should drop.
withoutInverted(hs, id) == SelectSeq(hs, LAMBDA h : h.id = id)

\* habits.filter(h => h.id !== id)
without(hs, id) == SelectSeq(hs, LAMBDA h : h.id # id)

\* deleteHabit going on whatever confirm() answers.
DeleteHabitUnasked(id, confirmed) ==
    /\ Interactive
    /\ pc' = "idle"
    /\ lastOp' = Did("delete", find(habits, id) # 0)
    /\ habits' = without(habits, id)
    /\ saveData(habits')
    /\ display' = renderHabits(habits')
    /\ UNCHANGED << now, day, resets >>

\* deleteHabit (lines 151-157); confirmed is the answer to confirm().
DeleteHabit(id, confirmed) ==
    /\ Interactive
    /\ pc' = "idle"
    /\ IF confirmed
       THEN /\ lastOp' = Did("delete", find(habits, id) # 0)
            /\ habits' = without(habits, id)
            /\ saveData(habits')
            /\ display' = renderHabits(habits')
       ELSE /\ lastOp' = Did("delete_declined", FALSE)
            /\ UNCHANGED << habits, totalPoints, storage, display,
                            progressText >>
    /\ UNCHANGED << now, day, resets >>

(* ------------------------------------------------------------------ Next *)
\* The page, its user and the clock.
PageNext ==
    \/ LoadData
    \/ CheckDailyReset
    \/ Render
    \/ Reload
    \/ \E n \in NameInputs, t \in TimeInputs : AddHabit(n, t)
    \/ \E id \in IdInputs : ToggleHabit(id)
    \/ \E id \in IdInputs, c \in BOOLEAN : DeleteHabit(id, c)
    \/ Tick
    \/ NextDay

Next ==
    \/ PageNext
    \/ CorruptStorage

\* The page in a browser where anything may overwrite the slot.
Spec == Init /\ [][Next]_vars

\* The same, opened on the long list.
SpecLongList == InitLongList /\ [][Next]_vars

\* The page as the only writer of the slot.
SpecSoleWriter == Init /\ [][PageNext]_vars

\* The page as the only writer of the slot, opened on the forty habits.
SpecFortyList == InitFortyList /\ [][PageNext]_vars

(* ================================================================ claims *)
\* Vocabulary of the claims, stated without the operators of the handlers.

\* The name without the spaces around it.
Stripped(n) ==
    LET solid == {k \in 1..Len(n) : n[k] # " "}
    IN  IF solid = {} THEN <<>>
        ELSE SubSeq(n, CHOOSE k \in solid : \A m \in solid : k <= m,
                       CHOOSE k \in solid : \A m \in solid : k >= m)

\* Two names are equal ignoring case.
SameIgnoringCase(a, b) ==
    /\ Len(a) = Len(b)
    /\ \A k \in 1..Len(a) :
          \/ a[k] = b[k]
          \/ {a[k], b[k]} \in {{"a", "A"}, {"b", "B"}}

\* addHabit must reject the name n in the current state.
Rejected(n) ==
    \/ Stripped(n) = <<>>
    \/ \E i \in 1..Len(habits) : SameIgnoringCase(habits[i].name, Stripped(n))

\* No habit of the store has the id.
Missing(id) == \A i \in 1..Len(habits) : habits[i].id # id

\* What the slot holds, when it holds a snapshot.
Persisted == JSONparse(storage)

\* This step is the daily reset check of a startup, run to its end.
CheckStep == pc = "check" /\ pc' = "render"

\* This step is a run of addHabit, of toggleHabit or deleteHabit (every
\* handler leaves its name in the history).
AddStep == lastOp'.op \in {"add", "add_blank", "add_duplicate"}
IdStep == lastOp'.op \in {"toggle", "delete"}

\* C1: in every state totalPoints is 10 times the number of habits whose
\* completed flag is true, with no clamp at 500.
PointsAreTenPerCompleted ==
    totalPoints = 10 * Cardinality({i \in 1..Len(habits) : habits[i].completed})

\* C1 witness: the page is idle and shows more than 500 points.
PointsAbove500 == pc = "idle" /\ totalPoints > 500

\* C2 (as claimed): no two habits of the store share an id.
IdsUnique ==
    \A i, j \in 1..Len(habits) : i # j => habits[i].id # habits[j].id

\* C3 (as claimed): after the reset check of a startup, every habit that is
\* completed was completed on the day of that startup.
NoCompletionSurvivesNewDay ==
    [][CheckStep =>
          \A i \in 1..Len(habits') :
              habits'[i].completed => habits'[i].setOn = day]_vars

\* C4: at most one daily reset per calendar day: a reset stamps today's date
\* in the slot, and a startup on a day that has had its reset performs none
\* and leaves the habits and the slot as they are.
OneResetPerDay ==
    [][CheckStep =>
          IF resets[day] >= 1
          THEN UNCHANGED << resets, habits, storage >>
          ELSE resets'[day] = 1 =>
                  /\ storage'.kind = "json"
                  /\ JSONparse(storage').lastVisitDate = day]_vars

\* C4 witness: a startup on a day that has had its reset passed the check
\* without a reset, with a completed habit in the store.
SecondStartupOfResetDay ==
    /\ pc = "render"
    /\ lastOp = Did("check", FALSE)
    /\ resets[day] = 1
    /\ totalPoints > 0

\* C5: the reset check changes no habit and nothing persisted when the
\* stored lastVisitDate is today; otherwise it clears every completed flag,
\* keeps ids, names, times and order, and persists the reset habits under
\* today's date.
DailyResetCheck ==
    [][(CheckStep /\ storage.kind = "json") =>
          IF Persisted.lastVisitDate = day
          THEN UNCHANGED << habits, storage >>
          ELSE /\ Len(habits') = Len(habits)
               /\ \A i \in 1..Len(habits) :
                     /\ habits'[i].completed = FALSE
                     /\ habits'[i].id = habits[i].id
                     /\ habits'[i].name = habits[i].name
                     /\ habits'[i].time = habits[i].time
               /\ storage'.kind = "json"
               /\ JSONparse(storage').lastVisitDate = day
               /\ JSONparse(storage').habits = habits']_vars

\* C5 witness: a reset has just cleared a list of several habits.
ResetJustDone ==
    /\ pc = "render"
    /\ lastOp = Did("check", TRUE)
    /\ Len(habits) >= 2
    /\ storage.kind = "json"

\* C6 (as claimed): loading a slot that does not parse goes on to the reset
\* check with an empty list.
CorruptFallsBackToEmpty ==
    [][(pc = "load" /\ storage = Corrupt /\ pc' # pc) =>
          (pc' = "check" /\ habits' = <<>>)]_vars

\* C7: an add whose name is empty after trimming, or equals an existing name
\* ignoring case, changes neither the list, nor totalPoints, nor the slot:
\* a run of addHabit that changes one of them is a run on no such name.
RejectedAddChangesNothing ==
    [][AddStep =>
          \/ UNCHANGED << habits, totalPoints, storage >>
          \/ \A n \in NameInputs :
                Rejected(n) => \A t \in TimeInputs : ~AddHabit(n, t)]_vars

\* C7 witness: a duplicate was just turned down with a snapshot in the slot.
DuplicateTurnedDown ==
    /\ lastOp = Did("add_duplicate", FALSE)
    /\ habits # <<>>
    /\ storage.kind = "json"

\* C8: every habit of the store has a non-empty name and no two have names
\* equal ignoring case.
NamesNonEmptyAndUnique ==
    /\ \A i \in 1..Len(habits) : habits[i].name # <<>>
    /\ \A i, j \in 1..Len(habits) :
          i # j => ~SameIgnoringCase(habits[i].name, habits[j].name)

\* C8 witness: two habits in the store after a startup that reset them.
TwoHabitsAfterReset == pc = "idle" /\ Len(habits) = 2 /\ resets[day] = 1

\* C9: a successful add appends one habit, not completed, with the trimmed
\* name and the given time or "Anytime", and leaves the others as they were.
SuccessfulAddAppends ==
    [][AddStep =>
          \A n \in NameInputs :
              ~Rejected(n) =>
                  \A t \in TimeInputs :
                      AddHabit(n, t) =>
                          /\ Len(habits') = Len(habits) + 1
                          /\ SubSeq(habits', 1, Len(habits)) = habits
                          /\ habits'[Len(habits')].completed = FALSE
                          /\ habits'[Len(habits')].name = Stripped(n)
                          /\ habits'[Len(habits')].time =
                                 (IF t = "" THEN "Anytime" ELSE t)]_vars

\* C9 witness: a habit with no time was just added behind a completed one.
AddedBehindCompleted ==
    /\ lastOp = Did("add", TRUE)
    /\ Len(habits) = 2
    /\ habits[1].completed
    /\ habits[2].time = "Anytime"

\* C10 (as claimed): a toggle or confirmed delete of an id that matches no
\* habit changes neither the list, nor totalPoints, nor the slot.
MissChangesNothing ==
    [][IdStep =>
          \A id \in IdInputs :
              (Missing(id) /\ (ToggleHabit(id) \/ DeleteHabit(id, TRUE))) =>
                  UNCHANGED << habits, totalPoints, storage >>]_vars

\* C10 (amended): a toggle of an id that matches no habit changes nothing;
\* a confirmed delete of such an id leaves the list and totalPoints as they
\* are and saves: the slot then holds the list under today's date.
MissKeepsListAndDeleteSaves ==
    [][IdStep =>
          \A id \in IdInputs :
              /\ (Missing(id) /\ ToggleHabit(id)) =>
                    UNCHANGED << habits, totalPoints, storage >>
              /\ (Missing(id) /\ DeleteHabit(id, TRUE)) =>
                    /\ UNCHANGED << habits, totalPoints >>
                    /\ storage'.kind = "json"
                    /\ JSONparse(storage').habits = habits
                    /\ JSONparse(storage').lastVisitDate = day]_vars

\* C10 witness: a confirmed delete has just missed a store with a completed
\* habit in it.
DeleteJustMissed ==
    /\ lastOp = Did("delete", FALSE)
    /\ habits # <<>>
    /\ totalPoints > 0

\* C11: toggling the same id twice in a row gives every habit its completed
\* flag back, and with it the points and the percentage: for every toggle
\* step, running the handler once more on the outcome (find, then flip)
\* yields the flags the list had before the step, the points that were
\* shown before it and the percentage of the list before it; a toggle that
\* found its habit leaves the percentage of the new list on the page.
ToggleIsItsOwnInverse ==
    [][lastOp'.op = "toggle" =>
        \A id \in IdInputs :
            ToggleHabit(id) =>
                LET again == find(habits', id)
                    twice == IF again # 0 THEN flipped(habits', again)
                             ELSE habits'
                IN  /\ Len(twice) = Len(habits)
                    /\ \A k \in 1..Len(habits) :
                          twice[k].completed = habits[k].completed
                    /\ calculatePoints(twice) = totalPoints
                    /\ updateProgress(twice) = updateProgress(habits)
                    /\ again # 0 => progressText' = updateProgress(habits')]_vars

\* A toggle has just flipped the first of two habits that share an id.
ToggledOneOfTwoAlike ==
    /\ lastOp = Did("toggle", TRUE)
    /\ Len(habits) = 2
    /\ habits[1].id = habits[2].id
    /\ habits[1].completed
    /\ ~habits[2].completed

\* C12: whenever the slot holds a snapshot, from the end of loadData on (so
\* after startup and after every add, toggle, delete and daily reset) the
\* habits parsed from the slot are the habits in memory, in the same order
\* and with the same fields; a reload then loads exactly that list.
SlotMirrorsMemory ==
    (pc # "load" /\ storage.kind = "json") => Persisted.habits = habits

\* C12 witness: the page waits for input after a toggle; the slot holds two
\* habits, the second of them completed.
MirroredAfterToggle ==
    /\ pc = "idle"
    /\ lastOp = Did("toggle", TRUE)
    /\ storage.kind = "json"
    /\ Len(Persisted.habits) = 2
    /\ ~Persisted.habits[1].completed
    /\ Persisted.habits[2].completed

\* How often h occurs in the list hs.
Occurrences(hs, h) == Cardinality({k \in 1..Len(hs) : hs[k] = h})

\* The step ends with the cards drawn anew from the list.
DrawStep ==
    \/ lastOp'.op \in {"render", "add", "delete"}
    \/ lastOp' = Did("toggle", TRUE)

\* C13: the cards drawn are a permutation of the stored habits, every
\* incomplete habit before every completed one and each of the two groups
\* ascending by time; drawing them at startup leaves the stored list as it
\* is.
DisplayIsSortedPermutation ==
    [][DrawStep =>
          /\ Len(display') = Len(habits')
          /\ \A k \in 1..Len(habits') :
                Occurrences(display', habits'[k]) =
                    Occurrences(habits', habits'[k])
          /\ \A p \in 1..Len(display') : \A q \in (p + 1)..Len(display') :
                /\ display'[p].completed => display'[q].completed
                /\ display'[p].completed = display'[q].completed =>
                      localeCompare(display'[p].time, display'[q].time) <= 0
          /\ lastOp'.op = "render" => habits' = habits]_vars

\* C13 witness: the startup has drawn two habits in the opposite of their
\* stored order.
DrawnOutOfStoredOrder ==
    /\ lastOp.op = "render"
    /\ Len(habits) = 2
    /\ display = << habits[2], habits[1] >>
    /\ habits[1] # habits[2]

\* C14: a startup loads, then runs the reset check once, then draws the
\* cards, and draws nothing before its reset check is over; so what a
\* startup draws as completed was completed on the day its reset check ran
\* (the date that check left in the slot), never on a day before it.
StartupDrawsNoStaleCompletion ==
    [][/\ (pc = "load" /\ pc' # pc) => pc' = "check"
       /\ (pc = "check" /\ pc' # pc) => pc' = "render"
       /\ (pc = "render" /\ pc' # pc) => pc' = "idle"
       /\ pc \in {"load", "check"} => display' = display
       /\ lastOp'.op = "render" =>
             \A k \in 1..Len(display') :
                 display'[k].completed =>
                     display'[k].setOn = Persisted.lastVisitDate]_vars

\* C15: the percentage on the page is 0 for an empty store and otherwise
\* 100 * completedCount / totalCount rounded to the nearest integer, a half
\* going up as every common round() takes it; it is an integer from 0 to
\* 100.  Stated where the page waits for input, the percentage drawn.
PercentageIsRoundedShare ==
    pc = "idle" =>
        LET n == Len(habits)
            c == Cardinality({k \in 1..n : habits[k].completed})
        IN  /\ progressText \in 0..100
            /\ n = 0 => progressText = 0
            /\ n > 0 => /\ 2 * n * progressText <= 200 * c + n
                        /\ 200 * c + n < 2 * n * (progressText + 1)

\* The step is a call of deleteHabit.
DeleteStep == lastOp'.op \in {"delete", "delete_declined"}

\* C16: a delete the user declines leaves the list and the slot as they
\* are; a confirmed delete of an id in the store leaves exactly the habits
\* with another id, each with the fields it had and in the order they had.
DeleteOnlyOnConfirm ==
    [][DeleteStep =>
          \A id \in IdInputs :
              /\ DeleteHabit(id, FALSE) => UNCHANGED << habits, storage >>
              /\ (~Missing(id) /\ DeleteHabit(id, TRUE)) =>
                    LET keep == {k \in 1..Len(habits) : habits[k].id # id}
                    IN  /\ Len(habits') = Cardinality(keep)
                        /\ \A k \in keep :
                              habits'[Cardinality({m \in keep : m <= k})]
                                  = habits[k]]_vars

\* C16 witness: a confirmed delete has just removed a habit and left a
\* completed one behind.
DeletedOneKeptOne ==
    /\ lastOp = Did("delete", TRUE)
    /\ Len(habits) = 1
    /\ habits[1].completed

\* What a habit is apart from its completion.
Core(h) == << h.id, h.name, h.time >>

\* The habits at the same index of hs and gs have the same id, name and time.
SameCores(hs, gs) ==
    /\ Len(hs) = Len(gs)
    /\ \A k \in 1..Len(hs) : Core(hs[k]) = Core(gs[k])

\* C17: no step changes the id, name or time of a habit in the store: every
\* habit in the list after a step has the id, name and time of a habit in
\* the list before it, or of a habit in the slot when the step loaded the
\* list, or is the one habit an add appended.  A toggle of an id in the
\* store changes the completed flag of one habit, one that has this id,
\* and nothing else; the daily reset changes completed flags only.
CoresNeverChange ==
    [][/\ \A k \in 1..Len(habits') :
             \/ \E j \in 1..Len(habits) : Core(habits[j]) = Core(habits'[k])
             \/ lastOp'.op = "add" /\ k = Len(habits')
             \/ /\ lastOp' = Did("load", TRUE)
                /\ \E j \in 1..Len(Persisted.habits) :
                      Core(Persisted.habits[j]) = Core(habits'[k])
       /\ lastOp' = Did("toggle", TRUE) =>
             /\ SameCores(habits, habits')
             /\ Cardinality({k \in 1..Len(habits) :
                    habits'[k].completed # habits[k].completed}) = 1
             /\ \A id \in IdInputs :
                    ToggleHabit(id) =>
                        \A k \in 1..Len(habits) :
                            habits'[k].completed # habits[k].completed =>
                                habits[k].id = id
       /\ CheckStep => SameCores(habits, habits')]_vars

\* C17 witness: a toggle has just taken the completion back from the first
\* of two habits that share an id, and the second is as it was.
UntoggledOneOfTwoAlike ==
    /\ lastOp = Did("toggle", TRUE)
    /\ Len(habits) = 2
    /\ habits[1].id = habits[2].id
    /\ ~habits[1].completed
    /\ ~habits[2].completed

====
